---------------------------- MODULE Spec2Model ----------------------------
(***************************************************************************)
(* Lifecycle manager of the in-process application security subsystem      *)
(* (internal/appsec/appsec.go): the process-wide active instance, the      *)
(* public Start/Stop/Enabled entry points, and the per-instance            *)
(* start()/stop() methods, run by concurrent control-plane callers and by  *)
(* the remote-configuration goroutine.                                     *)
(***************************************************************************)
EXTENDS Naturals, FiniteSets, Sequences

(* Bounds of the model: instances constructed, engine handles constructed *)
MaxInst == 2
MaxHandles == 2

(* Bound of the model: requests the host application processes at a time *)
MaxReq == 1

(* Bound of the model: the largest configured trace rate limit *)
MaxRate == 6

(* nil for instance and handle references *)
Nil == 0

Instances == 1..MaxInst
Handles == 1..MaxHandles
Requests == 1..MaxReq
Rates == 1..MaxRate

(* Two control-plane callers *)
Callers == {"t1", "t2"}
NoThread == "none"

VARIABLES
    activeAppSec,   \* var activeAppSec *appsec (Nil or an instance)
    mu,             \* var mu sync.RWMutex: [writer, readers]
    apps,           \* the appsec structs ever constructed, by instance
    root,           \* dyngo's root operation: Nil or the handle whose hook it is
    closeCount,     \* per handle: how many times Close() was called on it
    nextHandle,     \* next handle a successful swapWAF constructs
    panicked,       \* the process died of a nil dereference
    nextInst,       \* next instance newAppSec constructs
    th,             \* per caller: position and locals
    reqs,           \* per request of the host application: the hook it runs
    bucket          \* the token bucket of a rate limiter

vars == <<activeAppSec, mu, apps, root, closeCount, nextHandle, panicked,
          nextInst, th, reqs, bucket>>

(* type appsec struct { cfg, limiter, wafHandle, started }, with the state *)
(* of its remote-configuration wiring                                      *)
newAppSec ==
    [ started          |-> FALSE,
      wafHandle        |-> Nil,
      limiter          |-> "nil",     \* "nil" | "running" | "stopped"
      leakedTicker     |-> FALSE,     \* a ticker was replaced while running
      rcRunning        |-> FALSE,     \* remote-configuration client started
      remoteActivation |-> FALSE,     \* policy-toggle callback registered
      rcBlocking       |-> FALSE ]    \* ruleset-update callbacks registered

(* A caller at rest, between two calls *)
IdleThread ==
    [ pc      |-> "idle",
      op      |-> "none",   \* the entry point the caller is running
      a       |-> Nil,      \* Start's local appsec / setActiveAppSec's argument
      recv    |-> Nil,      \* receiver of the start()/stop() call in progress
      enabled |-> FALSE,    \* Start's local enabled (DD_APPSEC_ENABLED's value)
      set     |-> FALSE,    \* Start's local set (DD_APPSEC_ENABLED is defined)
      healthOk |-> FALSE,   \* the ok that waf.Health() returned to Start
      outcome |-> "none",   \* why Start is returning
      result  |-> FALSE ]   \* value Enabled() is about to return

(* A request slot with no request in it *)
IdleRequest == [state |-> "idle", hook |-> Nil]

(* No limiter was created yet *)
NoBucket ==
    [ made     |-> FALSE,
      capacity |-> 0,       \* most tokens the bucket holds
      refill   |-> 0,       \* tokens added when an interval elapses
      tokens   |-> 0,       \* tokens in the bucket
      ticked   |-> FALSE,   \* an interval has elapsed since the creation
      granted  |-> 0,       \* decisions "available" since the last interval
      last     |-> "none" ] \* the last decision since the last interval

Init ==
    /\ reqs = [r \in Requests |-> IdleRequest]
    /\ bucket = NoBucket
    /\ activeAppSec = Nil
    /\ mu = [writer |-> NoThread, readers |-> {}]
    /\ apps = [i \in Instances |-> newAppSec]
    /\ root = Nil
    /\ closeCount = [h \in Handles |-> 0]
    /\ nextHandle = 1
    /\ panicked = FALSE
    /\ nextInst = 1
    /\ th = [t \in Callers |-> IdleThread]

Allocated(i) == i \in Instances /\ i < nextInst

(* The state the instances' methods work on, as one value *)
W == [ apps |-> apps, root |-> root, closeCount |-> closeCount,
       nextHandle |-> nextHandle, panicked |-> panicked ]

(* The methods' result w becomes the next state *)
Apply(w) ==
    /\ apps' = w.apps
    /\ root' = w.root
    /\ closeCount' = w.closeCount
    /\ nextHandle' = w.nextHandle
    /\ panicked' = w.panicked

(* Caller t moves to position p, its locals kept *)
Goto(t, p) == th' = [th EXCEPT ![t].pc = p]

(* Caller t returns from its entry point *)
Return(t) == th' = [th EXCEPT ![t] = IdleThread]

(***************************************************************************)
(* Methods of the same package that this file calls: the remote            *)
(* configuration wiring and the ruleset swap.                              *)
(***************************************************************************)

(* a.startRC(): the client runs unless its construction failed *)
startRC(w, i, failed) == [w EXCEPT !.apps[i].rcRunning = ~failed]

(* a.stopRC() *)
stopRC(w, i) == [w EXCEPT !.apps[i].rcRunning = FALSE]

(* a.enableRemoteActivation(), when it succeeds *)
enableRemoteActivation(w, i) == [w EXCEPT !.apps[i].remoteActivation = TRUE]

(* a.enableRCBlocking() *)
enableRCBlocking(w, i) == [w EXCEPT !.apps[i].rcBlocking = TRUE]

(* a.disableRCBlocking() *)
disableRCBlocking(w, i) == [w EXCEPT !.apps[i].rcBlocking = FALSE]

(* wafHandle.Close() on handle h *)
Close(w, h) == [w EXCEPT !.closeCount[h] = IF @ < 2 THEN @ + 1 ELSE @]

(* dyngo.SwapRootOperation(h) *)
SwapRootOperation(w, h) == [w EXCEPT !.root = h]

(* The outcomes newWAFHandle may have: success needs a fresh handle *)
SwapOutcomes == {ok \in BOOLEAN : ok => nextHandle <= MaxHandles}

(* a.swapWAF(rules): on a construction failure nothing changes and an error *)
(* is returned; on success the new handle's hook becomes the root, the new  *)
(* handle is installed and the previous one is closed.                      *)
swapWAF(w, i, ok) ==
    IF ~ok
    THEN w
    ELSE LET old == w.apps[i].wafHandle
             new == w.nextHandle
             w1  == SwapRootOperation([w EXCEPT !.nextHandle = @ + 1], new)
             w2  == [w1 EXCEPT !.apps[i].wafHandle = new]
         IN  IF old # Nil THEN Close(w2, old) ELSE w2

(***************************************************************************)
(* func (a *appsec) start() error                                          *)
(***************************************************************************)

(* A start() that gives up on every error of the engine load *)
LoadFatal_AnyError(ok, err) == err

(* Whether waf.Load()'s (ok, err) makes start() give up (lines 138-144) *)
LoadFatal(ok, err) == err /\ ~ok

(* A start() that creates no limiter *)
newLimiter_NotCreated(w, i) == w

(* Lines 149-150: a.limiter = limiter.NewTokenTicker(...); a.limiter.Start() *)
newLimiter(w, i) ==
    [w EXCEPT !.apps[i].leakedTicker = @ \/ w.apps[i].limiter = "running",
              !.apps[i].limiter = "running"]

(* a.started = v (lines 156 and 168) *)
setStarted(w, i, v) == [w EXCEPT !.apps[i].started = v]

(* A start() that sets the started flag right after the engine load *)
StartSteps_StartedSecond ==
    << "start_Load", "start_started", "start_NewTokenTicker",
       "start_swapWAF", "start_enableRCBlocking" >>

(* A start() that creates and starts its limiter before it loads the engine *)
StartSteps_LimiterFirst ==
    << "start_NewTokenTicker", "start_Load", "start_swapWAF",
       "start_enableRCBlocking", "start_started" >>

(* The statements of start(), in program order *)
StartSteps ==
    << "start_Load", "start_NewTokenTicker", "start_swapWAF",
       "start_enableRCBlocking", "start_started" >>

(* What one call of start() is answered by its collaborators *)
StartInputs == [ok : BOOLEAN, err : BOOLEAN, swapOk : BOOLEAN]

(* A start() that ignores the error of its initial swap *)
startFails_LoadOnly(s, in) ==
    s = "start_Load" /\ LoadFatal(in.ok, in.err)

(* Statement s of start() returns an error *)
startFails(s, in) ==
    \/ s = "start_Load" /\ LoadFatal(in.ok, in.err)
    \/ s = "start_swapWAF" /\ ~in.swapOk

(* A start() that never sets the started flag *)
startStep_StartedNotSet(s, w, i, in) ==
    CASE s = "start_Load"             -> w
      [] s = "start_NewTokenTicker"   -> newLimiter(w, i)
      [] s = "start_swapWAF"          -> swapWAF(w, i, in.swapOk)
      [] s = "start_enableRCBlocking" -> enableRCBlocking(w, i)
      [] s = "start_started"          -> w

(* Statement s of start() on instance i, when it does not return *)
startStep(s, w, i, in) ==
    CASE s = "start_Load"             -> w
      [] s = "start_NewTokenTicker"   -> newLimiter(w, i)
      [] s = "start_swapWAF"          -> swapWAF(w, i, in.swapOk)
      [] s = "start_enableRCBlocking" -> enableRCBlocking(w, i)
      [] s = "start_started"          -> setStarted(w, i, TRUE)

RECURSIVE startFrom(_, _, _, _)
startFrom(k, w, i, in) ==
    IF k > Len(StartSteps) THEN [w |-> w, err |-> FALSE]
    ELSE IF startFails(StartSteps[k], in) THEN [w |-> w, err |-> TRUE]
    ELSE startFrom(k + 1, startStep(StartSteps[k], w, i, in), i, in)

(* The whole of start() on instance i: the state it leaves and its error *)
start(w, i, in) == startFrom(1, w, i, in)

(***************************************************************************)
(* func (a *appsec) stop()                                                 *)
(***************************************************************************)

(* A stop() that closes the handle and keeps the reference to it *)
closeHandle_KeepsReference(w, i) ==
    LET h == w.apps[i].wafHandle IN
    IF h # Nil THEN Close(w, h) ELSE w

(* Lines 174-177: close the handle and nil it *)
closeHandle(w, i) ==
    LET h == w.apps[i].wafHandle IN
    IF h # Nil THEN [Close(w, h) EXCEPT !.apps[i].wafHandle = Nil] ELSE w

(* Line 180: a.limiter.Stop(); on a nil limiter a nil dereference *)
limiterStop(w, i) ==
    IF w.apps[i].limiter = "nil"
    THEN [w EXCEPT !.panicked = TRUE]
    ELSE [w EXCEPT !.apps[i].limiter = "stopped"]

(* A stop() that stops the limiter right after it cleared the flag *)
StopSteps_LimiterSecond ==
    << "stop_started", "stop_limiterStop", "stop_disableRCBlocking",
       "stop_SwapRootOperation", "stop_Close" >>

(* A stop() that detaches the root after everything else *)
StopSteps_DetachLast ==
    << "stop_started", "stop_disableRCBlocking", "stop_Close",
       "stop_limiterStop", "stop_SwapRootOperation" >>

(* A stop() that closes the handle before it detaches the root *)
StopSteps_CloseThenDetach ==
    << "stop_started", "stop_disableRCBlocking", "stop_Close",
       "stop_SwapRootOperation", "stop_limiterStop" >>

(* The statements of stop(), in program order *)
StopSteps ==
    << "stop_started", "stop_disableRCBlocking", "stop_SwapRootOperation",
       "stop_Close", "stop_limiterStop" >>

(* A stop() that does not look at the started flag *)
stopReturns_Never(s, w, i) == FALSE

(* Lines 165-167: if !a.started { return } *)
stopReturns(s, w, i) == s = "stop_started" /\ ~w.apps[i].started

(* A stop() that leaves the root of the protection registry in place *)
stopStep_RootKept(s, w, i) ==
    CASE s = "stop_started"           -> setStarted(w, i, FALSE)
      [] s = "stop_disableRCBlocking" -> disableRCBlocking(w, i)
      [] s = "stop_SwapRootOperation" -> w
      [] s = "stop_Close"             -> closeHandle(w, i)
      [] s = "stop_limiterStop"       -> limiterStop(w, i)

(* Statement s of stop() on instance i, when it does not return *)
stopStep(s, w, i) ==
    CASE s = "stop_started"           -> setStarted(w, i, FALSE)
      [] s = "stop_disableRCBlocking" -> disableRCBlocking(w, i)
      [] s = "stop_SwapRootOperation" -> SwapRootOperation(w, Nil)
      [] s = "stop_Close"             -> closeHandle(w, i)
      [] s = "stop_limiterStop"       -> limiterStop(w, i)

RECURSIVE stopFrom(_, _, _)
stopFrom(k, w, i) ==
    IF k > Len(StopSteps) \/ w.panicked THEN w
    ELSE IF stopReturns(StopSteps[k], w, i) THEN w
    ELSE stopFrom(k + 1, stopStep(StopSteps[k], w, i), i)

(* The whole of stop() on instance i *)
stop(w, i) == stopFrom(1, w, i)

(* Position of statement s in the sequence steps *)
IndexOf(steps, s) == CHOOSE k \in 1..Len(steps) : steps[k] = s

InSeq(steps, s) == \E k \in 1..Len(steps) : steps[k] = s

(* Where the caller of start() goes on in Start (lines 89-94) *)
AfterStart(t, failed) ==
    [th EXCEPT ![t].pc = IF failed THEN "Start_abort" ELSE "setActiveAppSec_Lock",
               ![t].recv = Nil]

(* Where the caller of stop() goes on in setActiveAppSec (line 119) *)
AfterStop(t) ==
    [th EXCEPT ![t].pc = "setActiveAppSec_assign", ![t].recv = Nil]

(* What a call of start() may be answered in the current state *)
StartInputsNow == {in \in StartInputs : in.swapOk \in SwapOutcomes}

(* What statement s of start() on i does: the state it leaves and whether  *)
(* start() returns an error there                                          *)
startStatement(s, w, i, in) ==
    IF startFails(s, in) THEN [w |-> w, err |-> TRUE]
    ELSE [w |-> startStep(s, w, i, in), err |-> FALSE]

(* A caller runs the next statement of start() *)
start_Step(t) ==
    /\ ~panicked
    /\ InSeq(StartSteps, th[t].pc)
    /\ LET s == th[t].pc
           k == IndexOf(StartSteps, s)
       IN \E r \in {startStatement(s, W, th[t].recv, in) : in \in StartInputsNow} :
             /\ Apply(r.w)
             /\ th' = IF r.err THEN AfterStart(t, TRUE)
                      ELSE IF k = Len(StartSteps) THEN AfterStart(t, FALSE)
                      ELSE [th EXCEPT ![t].pc = StartSteps[k + 1]]
    /\ UNCHANGED <<bucket, reqs, activeAppSec, mu, nextInst>>

(* A stop() that waits, before it closes the handle, for the requests that *)
(* run its hook                                                            *)
stop_Step_WaitsForRequests(t) ==
    /\ ~panicked
    /\ InSeq(StopSteps, th[t].pc)
    /\ th[t].pc = "stop_Close" =>
          \A r \in Requests :
              reqs[r].state = "running"
                  => reqs[r].hook # apps[th[t].recv].wafHandle
    /\ LET s == th[t].pc
           k == IndexOf(StopSteps, s)
       IN IF stopReturns(s, W, th[t].recv)
          THEN /\ th' = AfterStop(t)
               /\ Apply(W)
          ELSE /\ Apply(stopStep(s, W, th[t].recv))
               /\ th' = IF k = Len(StopSteps) THEN AfterStop(t)
                        ELSE [th EXCEPT ![t].pc = StopSteps[k + 1]]
    /\ UNCHANGED <<bucket, reqs, activeAppSec, mu, nextInst>>

(* A caller runs the next statement of stop() *)
stop_Step(t) ==
    /\ ~panicked
    /\ InSeq(StopSteps, th[t].pc)
    /\ LET s == th[t].pc
           k == IndexOf(StopSteps, s)
       IN IF stopReturns(s, W, th[t].recv)
          THEN /\ th' = AfterStop(t)
               /\ Apply(W)
          ELSE /\ Apply(stopStep(s, W, th[t].recv))
               /\ th' = IF k = Len(StopSteps) THEN AfterStop(t)
                        ELSE [th EXCEPT ![t].pc = StopSteps[k + 1]]
    /\ UNCHANGED <<bucket, reqs, activeAppSec, mu, nextInst>>

(***************************************************************************)
(* func Enabled() bool                                                     *)
(***************************************************************************)

(* An Enabled that does not look at the started flag *)
EnabledValue_ActiveOnly == activeAppSec # Nil

(* return activeAppSec != nil && activeAppSec.started *)
EnabledValue == activeAppSec # Nil /\ apps[activeAppSec].started

(* An Enabled that reads the active instance without waiting for the lock *)
Enabled_RLock_Unlocked(t) ==
    /\ ~panicked
    /\ th[t].pc = "idle"
    /\ mu' = [mu EXCEPT !.readers = @ \cup {t}]
    /\ th' = [th EXCEPT ![t].pc = "Enabled_RUnlock", ![t].op = "Enabled",
                        ![t].result = EnabledValue]
    /\ UNCHANGED <<bucket, reqs, activeAppSec, apps, root, closeCount, nextHandle, panicked, nextInst>>

(* Lines 23-25: mu.RLock(), and the read made under the shared lock *)
Enabled_RLock(t) ==
    /\ ~panicked
    /\ th[t].pc = "idle"
    /\ mu.writer = NoThread
    /\ mu' = [mu EXCEPT !.readers = @ \cup {t}]
    /\ th' = [th EXCEPT ![t].pc = "Enabled_RUnlock", ![t].op = "Enabled",
                        ![t].result = EnabledValue]
    /\ UNCHANGED <<bucket, reqs, activeAppSec, apps, root, closeCount, nextHandle, panicked, nextInst>>

(* defer mu.RUnlock(); Enabled returns result *)
Enabled_RUnlock(t) ==
    /\ ~panicked
    /\ th[t].pc = "Enabled_RUnlock"
    /\ mu' = [mu EXCEPT !.readers = @ \ {t}]
    /\ Return(t)
    /\ UNCHANGED <<bucket, reqs, activeAppSec, apps, root, closeCount, nextHandle, panicked, nextInst>>

(***************************************************************************)
(* func Start(opts ...config.StartOption)                                  *)
(***************************************************************************)

(* What config.IsEnabled() can return: (enabled, set, err) for             *)
(* DD_APPSEC_ENABLED unset, true, false and unparsable.                    *)
IsEnabledResults ==
    { [enabled |-> FALSE, set |-> FALSE, err |-> FALSE],
      [enabled |-> TRUE,  set |-> TRUE,  err |-> FALSE],
      [enabled |-> FALSE, set |-> TRUE,  err |-> FALSE],
      [enabled |-> FALSE, set |-> TRUE,  err |-> TRUE] }

(* A Start that does not return when DD_APPSEC_ENABLED is set to false *)
StartOutcome_NoDisabledCheck(enabled, set, err, healthOk, cfgErr) ==
    IF err THEN "enabled_error"
    ELSE IF ~healthOk THEN "unhealthy"
    ELSE IF cfgErr THEN "config_error"
    ELSE "construct"

(* A Start that goes on when waf.Health() reports the engine unusable *)
StartOutcome_NoHealthCheck(enabled, set, err, healthOk, cfgErr) ==
    IF err THEN "enabled_error"
    ELSE IF set /\ ~enabled THEN "disabled"
    ELSE IF cfgErr THEN "config_error"
    ELSE "construct"

(* Lines 36-67: how far Start gets before it constructs an instance *)
StartOutcome(enabled, set, err, healthOk, cfgErr) ==
    IF err THEN "enabled_error"
    ELSE IF set /\ ~enabled THEN "disabled"
    ELSE IF ~healthOk THEN "unhealthy"
    ELSE IF cfgErr THEN "config_error"
    ELSE "construct"

(* The calls of Start as the code tells them apart: the outcome of its     *)
(* checks, its locals enabled and set, and the answer of waf.Health        *)
StartCalls ==
    { [outcome |-> StartOutcome(r.enabled, r.set, r.err, healthOk, cfgErr),
       enabled |-> r.enabled, set |-> r.set, healthOk |-> healthOk] :
         r \in IsEnabledResults, healthOk \in BOOLEAN, cfgErr \in BOOLEAN }

(* Lines 30-71: a caller enters Start, config.IsEnabled, waf.Health and    *)
(* config.NewConfig let it through, and it constructs                      *)
(* appsec := newAppSec(cfg)                                                *)
StartCall(t) ==
    /\ ~panicked
    /\ th[t].pc = "idle"
    /\ nextInst <= MaxInst
    /\ \E c \in StartCalls :
          /\ c.outcome = "construct"
          /\ th' = [th EXCEPT ![t].pc = "Start_startRC", ![t].op = "Start",
                              ![t].enabled = c.enabled, ![t].set = c.set,
                              ![t].healthOk = c.healthOk, ![t].a = nextInst]
    /\ apps' = [apps EXCEPT ![nextInst] = newAppSec]
    /\ nextInst' = nextInst + 1
    /\ UNCHANGED <<bucket, reqs, activeAppSec, mu, root, closeCount, nextHandle, panicked>>

(* Lines 30-66: a caller enters Start and one of the checks of lines 37,   *)
(* 43, 49 and 64 makes it return                                           *)
StartCall_return(t) ==
    /\ ~panicked
    /\ th[t].pc = "idle"
    /\ \E c \in StartCalls :
          /\ c.outcome # "construct"
          /\ th' = [th EXCEPT ![t].pc = "Start_return", ![t].op = "Start",
                              ![t].enabled = c.enabled, ![t].set = c.set,
                              ![t].healthOk = c.healthOk,
                              ![t].outcome = c.outcome]
    /\ UNCHANGED <<bucket, reqs, activeAppSec, mu, apps, root, closeCount, nextHandle, panicked, nextInst>>

(* A Start that stops the active instance before it returns early *)
Start_return_StopsActive(t) ==
    /\ ~panicked
    /\ th[t].pc = "Start_return"
    /\ Apply(IF activeAppSec # Nil THEN stop(W, activeAppSec) ELSE W)
    /\ Return(t)
    /\ UNCHANGED <<bucket, reqs, activeAppSec, mu, nextInst>>

(* The return statements of lines 39, 45, 59 and 66 *)
Start_return(t) ==
    /\ ~panicked
    /\ th[t].pc = "Start_return"
    /\ Return(t)
    /\ UNCHANGED <<bucket, reqs, activeAppSec, mu, apps, root, closeCount, nextHandle, panicked, nextInst>>

(* Lines 73-79, 89: appsec.startRC(), an error only logged; then the branch *)
(* on set: enableRemoteActivation, or appsec.start()                        *)
Start_startRC(t) ==
    /\ ~panicked
    /\ th[t].pc = "Start_startRC"
    /\ \E failed \in BOOLEAN : Apply(startRC(W, th[t].a, failed))
    /\ th' = IF ~th[t].set
             THEN [th EXCEPT ![t].pc = "Start_enableRemoteActivation"]
             ELSE [th EXCEPT ![t].pc = StartSteps[1], ![t].recv = th[t].a]
    /\ UNCHANGED <<bucket, reqs, activeAppSec, mu, nextInst>>

(* Lines 79-88: appsec.enableRemoteActivation() *)
Start_enableRemoteActivation(t) ==
    /\ ~panicked
    /\ th[t].pc = "Start_enableRemoteActivation"
    /\ \E failed \in BOOLEAN :
          IF failed
          THEN /\ Goto(t, "Start_abort")
               /\ Apply(W)
          ELSE /\ Apply(enableRemoteActivation(W, th[t].a))
               /\ Goto(t, "setActiveAppSec_Lock")
    /\ UNCHANGED <<bucket, reqs, activeAppSec, mu, nextInst>>

(* A failing Start that returns without stopping the client of its         *)
(* instance                                                                *)
Start_abort_NoStopRC(t) ==
    /\ ~panicked
    /\ th[t].pc = "Start_abort"
    /\ Apply(W)
    /\ Return(t)
    /\ UNCHANGED <<bucket, reqs, activeAppSec, mu, nextInst>>

(* Lines 84-86 and 90-92: appsec.stopRC(); return *)
Start_abort(t) ==
    /\ ~panicked
    /\ th[t].pc = "Start_abort"
    /\ Apply(stopRC(W, th[t].a))
    /\ Return(t)
    /\ UNCHANGED <<bucket, reqs, activeAppSec, mu, nextInst>>

(***************************************************************************)
(* func Stop() and func setActiveAppSec(a *appsec)                         *)
(***************************************************************************)

(* Stop(): setActiveAppSec(nil) *)
StopCall(t) ==
    /\ ~panicked
    /\ th[t].pc = "idle"
    /\ th' = [th EXCEPT ![t].pc = "setActiveAppSec_Lock", ![t].op = "Stop",
                        ![t].a = Nil]
    /\ UNCHANGED <<bucket, reqs, activeAppSec, mu, apps, root, closeCount, nextHandle, panicked, nextInst>>

(* A setActiveAppSec that installs the new reference and leaves the        *)
(* previous instance as it is                                              *)
setActiveAppSec_Lock_NoStop(t) ==
    /\ ~panicked
    /\ th[t].pc = "setActiveAppSec_Lock"
    /\ mu.writer = NoThread
    /\ mu.readers = {}
    /\ mu' = [mu EXCEPT !.writer = t]
    /\ Goto(t, "setActiveAppSec_assign")
    /\ UNCHANGED <<bucket, reqs, activeAppSec, apps, root, closeCount, nextHandle, panicked, nextInst>>

(* Lines 113-115: mu.Lock(); if activeAppSec != nil *)
setActiveAppSec_Lock(t) ==
    /\ ~panicked
    /\ th[t].pc = "setActiveAppSec_Lock"
    /\ mu.writer = NoThread
    /\ mu.readers = {}
    /\ mu' = [mu EXCEPT !.writer = t]
    /\ Goto(t, IF activeAppSec # Nil THEN "setActiveAppSec_stopRC"
                                     ELSE "setActiveAppSec_assign")
    /\ UNCHANGED <<bucket, reqs, activeAppSec, apps, root, closeCount, nextHandle, panicked, nextInst>>

(* A setActiveAppSec that stops the previous instance and leaves its       *)
(* remote-configuration client running                                     *)
setActiveAppSec_stopRC_Skipped(t) ==
    /\ ~panicked
    /\ th[t].pc = "setActiveAppSec_stopRC"
    /\ Apply(W)
    /\ th' = [th EXCEPT ![t].pc = StopSteps[1], ![t].recv = activeAppSec]
    /\ UNCHANGED <<bucket, reqs, activeAppSec, mu, nextInst>>

(* Lines 116-117: activeAppSec.stopRC(), then into activeAppSec.stop() *)
setActiveAppSec_stopRC(t) ==
    /\ ~panicked
    /\ th[t].pc = "setActiveAppSec_stopRC"
    /\ Apply(stopRC(W, activeAppSec))
    /\ th' = [th EXCEPT ![t].pc = StopSteps[1], ![t].recv = activeAppSec]
    /\ UNCHANGED <<bucket, reqs, activeAppSec, mu, nextInst>>

(* A setActiveAppSec that clears the reference whatever it is given *)
setActiveAppSec_assign_Nil(t) ==
    /\ ~panicked
    /\ th[t].pc = "setActiveAppSec_assign"
    /\ activeAppSec' = Nil
    /\ Goto(t, "setActiveAppSec_Unlock")
    /\ UNCHANGED <<bucket, reqs, mu, apps, root, closeCount, nextHandle, panicked, nextInst>>

(* Line 119: activeAppSec = a *)
setActiveAppSec_assign(t) ==
    /\ ~panicked
    /\ th[t].pc = "setActiveAppSec_assign"
    /\ activeAppSec' = th[t].a
    /\ Goto(t, "setActiveAppSec_Unlock")
    /\ UNCHANGED <<bucket, reqs, mu, apps, root, closeCount, nextHandle, panicked, nextInst>>

(* A setActiveAppSec that returns with the lock held *)
setActiveAppSec_Unlock_Kept(t) ==
    /\ ~panicked
    /\ th[t].pc = "setActiveAppSec_Unlock"
    /\ Return(t)
    /\ UNCHANGED <<bucket, reqs, activeAppSec, mu, apps, root, closeCount, nextHandle, panicked, nextInst>>

(* Line 114: defer mu.Unlock(); the entry point returns *)
setActiveAppSec_Unlock(t) ==
    /\ ~panicked
    /\ th[t].pc = "setActiveAppSec_Unlock"
    /\ mu' = [mu EXCEPT !.writer = NoThread]
    /\ Return(t)
    /\ UNCHANGED <<bucket, reqs, activeAppSec, apps, root, closeCount, nextHandle, panicked, nextInst>>

(***************************************************************************)
(* The remote-configuration goroutine.  It applies one update at a time,   *)
(* to an instance whose client runs, and stopRC returns only between two   *)
(* updates: a callback is one step.                                        *)
(***************************************************************************)

(* Remote "enable": a.start() unless the instance is started *)
RemoteEnable(i) ==
    /\ ~panicked
    /\ Allocated(i)
    /\ apps[i].rcRunning /\ apps[i].remoteActivation
    /\ ~apps[i].started
    /\ \E w \in {start(W, i, in).w : in \in StartInputsNow} : Apply(w)
    /\ UNCHANGED <<activeAppSec, mu, nextInst, th, reqs, bucket>>

(* Remote "disable": a.stop() when the instance is started *)
RemoteDisable(i) ==
    /\ ~panicked
    /\ Allocated(i)
    /\ apps[i].rcRunning /\ apps[i].remoteActivation
    /\ apps[i].started
    /\ Apply(stop(W, i))
    /\ UNCHANGED <<activeAppSec, mu, nextInst, th, reqs, bucket>>

(* Remote ruleset update: a.swapWAF(rules) on an instance accepting them;  *)
(* a callback that observes started false declines to act                  *)
RemoteRuleset(i) ==
    /\ ~panicked
    /\ Allocated(i)
    /\ apps[i].rcRunning /\ apps[i].rcBlocking
    /\ apps[i].started
    /\ \E ok \in SwapOutcomes : Apply(swapWAF(W, i, ok))
    /\ UNCHANGED <<activeAppSec, mu, nextInst, th, reqs, bucket>>

(***************************************************************************)
(* Requests of the host application.  A request dereferences the root of   *)
(* the protection registry once, when it begins, and runs the hook it      *)
(* found (or none) to its end.                                             *)
(***************************************************************************)

(* A request begins: one atomic read of the root *)
Request_Begin(r) ==
    /\ ~panicked
    /\ reqs[r].state = "idle"
    /\ reqs' = [reqs EXCEPT ![r] = [state |-> "running", hook |-> root]]
    /\ UNCHANGED <<activeAppSec, mu, apps, root, closeCount, nextHandle,
                   panicked, nextInst, th, bucket>>

(* A request runs to its end *)
Request_End(r) ==
    /\ ~panicked
    /\ reqs[r].state = "running"
    /\ reqs' = [reqs EXCEPT ![r] = IdleRequest]
    /\ UNCHANGED <<activeAppSec, mu, apps, root, closeCount, nextHandle,
                   panicked, nextInst, th, bucket>>

(***************************************************************************)
(* The rate limiter that start() creates, followed on its own: a token     *)
(* bucket that an interval refills and a decision draws one token from.    *)
(***************************************************************************)

Min(x, y) == IF x < y THEN x ELSE y

(* limiter.NewTokenTicker(capacity, refill), holding tokens0 tokens *)
NewTokenTicker(capacity, refill, tokens0) ==
    [ made |-> TRUE, capacity |-> capacity, refill |-> refill,
      tokens |-> tokens0, ticked |-> FALSE, granted |-> 0, last |-> "none" ]

(* A limiter created with a refill of one token an interval *)
TraceRateLimiter_RefillOne(n, tokens0) == NewTokenTicker(n, 1, tokens0)

(* Line 149: limiter.NewTokenTicker(a.cfg.TraceRateLimit,                  *)
(* a.cfg.TraceRateLimit)                                                   *)
TraceRateLimiter(n, tokens0) == NewTokenTicker(n, n, tokens0)

(* Lines 149-150: start() creates the limiter, for a configured rate n,    *)
(* and starts it                                                           *)
Limiter_New ==
    /\ \E n \in Rates : \E tokens0 \in 0..n :
          bucket' = TraceRateLimiter(n, tokens0)
    /\ UNCHANGED <<activeAppSec, mu, apps, root, closeCount, nextHandle,
                   panicked, nextInst, th, reqs>>

(* An interval elapses: the ticker refills the bucket up to its capacity *)
Limiter_Tick ==
    /\ bucket.made
    /\ bucket' = [bucket EXCEPT
                     !.tokens = Min(bucket.capacity, @ + bucket.refill),
                     !.ticked = TRUE, !.granted = 0, !.last = "none"]
    /\ UNCHANGED <<activeAppSec, mu, apps, root, closeCount, nextHandle,
                   panicked, nextInst, th, reqs>>

(* A decision: a token is drawn if there is one; the caller never waits *)
Limiter_Allow ==
    /\ bucket.made
    /\ bucket' = IF bucket.tokens > 0
                 THEN [bucket EXCEPT !.tokens = @ - 1, !.granted = @ + 1,
                                     !.last = "available"]
                 ELSE [bucket EXCEPT !.last = "unavailable"]
    /\ UNCHANGED <<activeAppSec, mu, apps, root, closeCount, nextHandle,
                   panicked, nextInst, th, reqs>>

(***************************************************************************)
(* Specifications                                                          *)
(***************************************************************************)

(* Any interleaving of the callers and the remote-configuration goroutine. *)
(* A call of Start that returns before it constructs an instance reads and *)
(* writes nothing shared; such calls are left to SpecSeq.                  *)
Next ==
    \/ \E t \in Callers : Enabled_RLock(t)
    \/ \E t \in Callers : Enabled_RUnlock(t)
    \/ \E t \in Callers : StartCall(t)
    \/ \E t \in Callers : Start_startRC(t)
    \/ \E t \in Callers : Start_enableRemoteActivation(t)
    \/ \E t \in Callers : Start_abort(t)
    \/ \E t \in Callers : start_Step(t)
    \/ \E t \in Callers : stop_Step(t)
    \/ \E t \in Callers : StopCall(t)
    \/ \E t \in Callers : setActiveAppSec_Lock(t)
    \/ \E t \in Callers : setActiveAppSec_stopRC(t)
    \/ \E t \in Callers : setActiveAppSec_assign(t)
    \/ \E t \in Callers : setActiveAppSec_Unlock(t)
    \/ \E i \in Instances : RemoteEnable(i)
    \/ \E i \in Instances : RemoteDisable(i)
    \/ \E i \in Instances : RemoteRuleset(i)

Spec == Init /\ [][Next]_vars

(* One control-plane call at a time: a call runs to its return before the  *)
(* next call or remote update begins                                       *)
OneAtATime == \A t \in Callers : th[t].pc # "idle" => th'[t] # th[t]

(* Calls and remote updates one after the other *)
SeqNext ==
    \/ \E t \in Callers : Enabled_RLock(t) /\ OneAtATime
    \/ \E t \in Callers : Enabled_RUnlock(t) /\ OneAtATime
    \/ \E t \in Callers : StartCall(t) /\ OneAtATime
    \/ \E t \in Callers : StartCall_return(t) /\ OneAtATime
    \/ \E t \in Callers : Start_return(t) /\ OneAtATime
    \/ \E t \in Callers : Start_startRC(t) /\ OneAtATime
    \/ \E t \in Callers : Start_enableRemoteActivation(t) /\ OneAtATime
    \/ \E t \in Callers : Start_abort(t) /\ OneAtATime
    \/ \E t \in Callers : start_Step(t) /\ OneAtATime
    \/ \E t \in Callers : stop_Step(t) /\ OneAtATime
    \/ \E t \in Callers : StopCall(t) /\ OneAtATime
    \/ \E t \in Callers : setActiveAppSec_Lock(t) /\ OneAtATime
    \/ \E t \in Callers : setActiveAppSec_stopRC(t) /\ OneAtATime
    \/ \E t \in Callers : setActiveAppSec_assign(t) /\ OneAtATime
    \/ \E t \in Callers : setActiveAppSec_Unlock(t) /\ OneAtATime
    \/ \E i \in Instances : RemoteEnable(i) /\ OneAtATime
    \/ \E i \in Instances : RemoteDisable(i) /\ OneAtATime
    \/ \E i \in Instances : RemoteRuleset(i) /\ OneAtATime

SpecSeq == Init /\ [][SeqNext]_vars

(* Concurrent calls of every kind, the early returns of Start included *)
LiveNext ==
    \/ Next
    \/ \E t \in Callers : StartCall_return(t)
    \/ \E t \in Callers : Start_return(t)

(* A step of caller t that is not a wait for the lock: the collaborators   *)
(* it calls return, and a goroutine that can run does run                  *)
Continue(t) ==
    \/ Enabled_RUnlock(t)
    \/ Start_return(t)
    \/ Start_startRC(t)
    \/ Start_enableRemoteActivation(t)
    \/ Start_abort(t)
    \/ start_Step(t)
    \/ stop_Step(t)
    \/ setActiveAppSec_stopRC(t)
    \/ setActiveAppSec_assign(t)
    \/ setActiveAppSec_Unlock(t)

(* Concurrent calls under the scheduling of Go: a runnable caller runs,    *)
(* and a caller blocked in mu.Lock() gets the lock, since sync.RWMutex     *)
(* lets no reader starve a waiting writer                                  *)
SpecLive ==
    /\ Init
    /\ [][LiveNext]_vars
    /\ \A t \in Callers : WF_vars(Continue(t))
    /\ \A t \in Callers : SF_vars(setActiveAppSec_Lock(t))

(* The life of rate limiters *)
LimiterNext ==
    \/ Limiter_New
    \/ Limiter_Tick
    \/ Limiter_Allow

SpecLimiter == Init /\ [][LimiterNext]_vars

(* The control plane as one goroutine making its calls one after the other *)
ControlCaller == {CHOOSE t \in Callers : TRUE}

(* The steps of the control plane that bear on the root and the handles:   *)
(* calls of Start that construct an instance, calls of Stop, and remote    *)
(* updates, one after the other                                            *)
ControlNext ==
    \/ \E t \in ControlCaller : StartCall(t) /\ OneAtATime
    \/ \E t \in ControlCaller : Start_startRC(t) /\ OneAtATime
    \/ \E t \in ControlCaller : Start_enableRemoteActivation(t) /\ OneAtATime
    \/ \E t \in ControlCaller : Start_abort(t) /\ OneAtATime
    \/ \E t \in ControlCaller : start_Step(t) /\ OneAtATime
    \/ \E t \in ControlCaller : stop_Step(t) /\ OneAtATime
    \/ \E t \in ControlCaller : StopCall(t) /\ OneAtATime
    \/ \E t \in ControlCaller : setActiveAppSec_Lock(t) /\ OneAtATime
    \/ \E t \in ControlCaller : setActiveAppSec_stopRC(t) /\ OneAtATime
    \/ \E t \in ControlCaller : setActiveAppSec_assign(t) /\ OneAtATime
    \/ \E t \in ControlCaller : setActiveAppSec_Unlock(t) /\ OneAtATime
    \/ \E i \in Instances : RemoteEnable(i) /\ OneAtATime
    \/ \E i \in Instances : RemoteDisable(i) /\ OneAtATime
    \/ \E i \in Instances : RemoteRuleset(i) /\ OneAtATime

(* Requests run concurrently with the control plane *)
ReqNext ==
    \/ ControlNext
    \/ \E r \in Requests : Request_Begin(r)
    \/ \E r \in Requests : Request_End(r)

(* A call is in progress *)
InCall == \E t \in Callers : th[t].pc # "idle"

(* The goroutine of a call in progress is scheduled; nothing is assumed of *)
(* the requests: one may run forever                                       *)
SpecReq == Init /\ [][ReqNext]_vars /\ WF_vars(InCall /\ ControlNext)

(***************************************************************************)
(* Properties                                                              *)
(***************************************************************************)

(* Instance i is started, holds a handle, and that handle's hook is the root *)
Rooted(i) == apps[i].wafHandle # Nil /\ root = apps[i].wafHandle

(* C1: in every state, a started instance holds a non-nil engine handle    *)
(* whose detection hook is the current root of the protection registry,    *)
(* after any sequence of public Start and Stop calls.                      *)
C1_StartedImpliesRooted ==
    \A i \in Instances : apps[i].started => Rooted(i)

(* Instance i is fully stopped: not started, its handle closed and         *)
(* released (so its hook is not the root), its limiter not running         *)
FullyStopped(i) ==
    /\ ~apps[i].started
    /\ apps[i].wafHandle = Nil
    /\ apps[i].limiter # "running"

(* An effect of start() on instance i is observable *)
StartEffectVisible(i) ==
    \/ apps[i].started
    \/ apps[i].limiter = "running"
    \/ Rooted(i)

(* C2: while a call of Start is installing a new instance B over the       *)
(* active instance A, no effect of B's start is visible unless A is fully  *)
(* stopped.                                                                *)
C2_StoppedBeforeStartEffects ==
    \A t \in Callers :
        (/\ th[t].op = "Start"
         /\ th[t].a # Nil
         /\ activeAppSec # Nil
         /\ activeAppSec # th[t].a
         /\ StartEffectVisible(th[t].a))
        => FullyStopped(activeAppSec)

(* C3: a call of Enabled holds mu shared, with no writer, from its read to *)
(* its return; no publication happens meanwhile; and the value it returns  *)
(* is TRUE exactly when, at the read, an active instance exists and its    *)
(* started flag is set (FALSE when there is no active instance).           *)
C3_EnabledUnderSharedLock ==
    [][\A t \in Callers :
        /\ (th[t].pc = "idle" /\ th'[t].pc = "Enabled_RUnlock")
             => /\ mu.writer = NoThread
                /\ mu'.writer = NoThread
                /\ t \in mu'.readers
                /\ th'[t].result
                     = (activeAppSec # Nil /\ apps[activeAppSec].started)
                /\ activeAppSec = Nil => ~th'[t].result
        /\ th[t].pc = "Enabled_RUnlock"
             => /\ t \in mu.readers
                /\ mu.writer = NoThread
                /\ activeAppSec' = activeAppSec
                /\ th'[t].pc = "idle" => t \notin mu'.readers
      ]_vars

(* A call of Enabled has read TRUE and has not returned yet *)
C3_EnabledReturnsTrue ==
    \E t \in Callers :
        /\ th[t].pc = "Enabled_RUnlock"
        /\ th[t].result
        /\ activeAppSec # Nil

(* Caller t is in a call of Stop that has cleared the active reference and *)
(* has only to unlock and return, and no other caller is in Start          *)
StopReturning(t) ==
    /\ th[t].op = "Stop"
    /\ th[t].pc = "setActiveAppSec_Unlock"
    /\ \A u \in Callers \ {t} : th[u].op # "Start"

(* C4: when the public Stop returns with no Start running concurrently,    *)
(* the root of the protection registry is nil, there is no active          *)
(* instance, and Enabled would return false.                               *)
C4_StopLeavesNothingActive ==
    \A t \in Callers :
        StopReturning(t) =>
            /\ root = Nil
            /\ activeAppSec = Nil
            /\ ~EnabledValue

(* A Stop is returning after it stopped an instance that was started *)
C4_StopOfStartedInstance ==
    \E t \in Callers :
        /\ StopReturning(t)
        /\ \E i \in Instances :
               /\ apps[i].limiter = "stopped"
               /\ closeCount[1] = 1

(* Some caller is inside start() or stop() on instance i *)
InMethod(i) == \E t \in Callers : th[t].recv = i

(* C5: an instance whose started flag is set holds a non-nil engine        *)
(* handle, and an instance that is not started and has no start() or       *)
(* stop() in progress holds none (so the handle is nil once stop() has     *)
(* returned).                                                              *)
C5_HandleIffStarted ==
    \A i \in Instances :
        /\ apps[i].started => apps[i].wafHandle # Nil
        /\ (~apps[i].started /\ ~InMethod(i)) => apps[i].wafHandle = Nil

(* An instance was started and then stopped, and no call is inside it *)
C5_StartedThenStopped ==
    \E i \in Instances :
        /\ apps[i].limiter = "stopped"
        /\ ~apps[i].started
        /\ ~InMethod(i)
        /\ \E h \in Handles : closeCount[h] = 1

(* The inputs of a start() whose engine load succeeds and whose initial    *)
(* swap fails to construct its handle                                      *)
SwapFails == [ok |-> TRUE, err |-> FALSE, swapOk |-> FALSE]

(* C6: a swap whose new handle fails to construct leaves the installed     *)
(* handle, the root and the value of Enabled as they were; a start() whose *)
(* initial swap fails returns the error with started still false, whether  *)
(* a caller of Start or a remote enable runs it.                           *)
C6_FailedSwapChangesNothing ==
    /\ [](\A i \in Instances : Allocated(i) =>
            /\ swapWAF(W, i, FALSE).root = root
            /\ swapWAF(W, i, FALSE).closeCount = closeCount
            /\ swapWAF(W, i, FALSE).apps[i].wafHandle = apps[i].wafHandle
            /\ swapWAF(W, i, FALSE).apps[i].started = apps[i].started
            /\ ~apps[i].started =>
                 /\ start(W, i, SwapFails).err
                 /\ ~start(W, i, SwapFails).w.apps[i].started
                 /\ start(W, i, SwapFails).w.apps[i].wafHandle
                      = apps[i].wafHandle
                 /\ start(W, i, SwapFails).w.root = root)
    /\ [][\A t \in Callers :
            (th[t].pc = "start_swapWAF" /\ th'[t].pc = "Start_abort")
               => /\ UNCHANGED <<apps, root, closeCount, nextHandle,
                                 activeAppSec>>
                  /\ ~apps'[th[t].a].started
                  /\ EnabledValue' = EnabledValue
       ]_vars

(* The start() of a call of Start has failed at its swap: the limiter of   *)
(* the new instance was started, the instance was not                      *)
C6_StartFailedAtSwap ==
    \E t \in Callers :
        /\ th[t].pc = "Start_abort"
        /\ apps[th[t].a].limiter = "running"
        /\ ~apps[th[t].a].started
        /\ activeAppSec # Nil

(* The positions of a call of Start between the construction of its        *)
(* instance and the call of setActiveAppSec                                *)
PreInstallPcs ==
    {"Start_startRC", "Start_enableRemoteActivation", "Start_abort"}
        \cup {StartSteps[k] : k \in 1..Len(StartSteps)}

(* C7: a call of Start that fails after it constructed an instance (its    *)
(* start() or its enableRemoteActivation returned an error) never installs *)
(* the instance: the active reference is the same after the call as        *)
(* before, it is not the new instance, and the new instance's              *)
(* remote-configuration client is stopped when the call returns.  A        *)
(* published instance is therefore always one that was started or whose    *)
(* remote activation was enabled.                                          *)
C7_FailedStartInstallsNothing ==
    /\ [](/\ \A t \in Callers :
                th[t].pc \in PreInstallPcs => activeAppSec # th[t].a
          /\ (activeAppSec # Nil /\ mu.writer = NoThread)
                => \/ apps[activeAppSec].started
                   \/ apps[activeAppSec].remoteActivation)
    /\ [][\A t \in Callers :
            /\ (th[t].pc \in PreInstallPcs \/ th'[t].pc = "Start_startRC")
                 => activeAppSec' = activeAppSec
            /\ th[t].pc = "Start_abort"
                 => /\ th'[t].pc = "idle"
                    /\ ~apps'[th[t].a].rcRunning
                    /\ activeAppSec' # th[t].a
       ]_vars

(* A call of Start is failing while another instance is active, and the    *)
(* remote-configuration client of its new instance is running              *)
C7_StartFailingOverActive ==
    \E t \in Callers :
        /\ th[t].pc = "Start_abort"
        /\ apps[th[t].a].rcRunning
        /\ activeAppSec # Nil
        /\ apps[activeAppSec].started

(* Caller t is in a call of Start whose local enablement was read, without *)
(* error, as explicitly false                                              *)
ExplicitlyDisabled(t) ==
    /\ th[t].op = "Start"
    /\ th[t].set
    /\ ~th[t].enabled
    /\ th[t].outcome # "enabled_error"

(* C8: a call of Start whose local enablement is explicitly false returns  *)
(* at once: it constructs no instance, and it changes neither the active   *)
(* reference nor any instance, handle, root or remote-configuration state, *)
(* so nothing it set up can later make Enabled true.                       *)
C8_ExplicitlyDisabledDoesNothing ==
    /\ [](/\ \A healthOk, cfgErr \in BOOLEAN :
                StartOutcome(FALSE, TRUE, FALSE, healthOk, cfgErr)
                    = "disabled"
          /\ \A t \in Callers :
                ExplicitlyDisabled(t) =>
                    /\ th[t].outcome = "disabled"
                    /\ th[t].pc = "Start_return"
                    /\ th[t].a = Nil)
    /\ [][\A t \in Callers :
            (ExplicitlyDisabled(t) \/ ExplicitlyDisabled(t)')
               => UNCHANGED <<activeAppSec, mu, apps, root, closeCount,
                              nextHandle, panicked, nextInst>>
       ]_vars

(* A call of Start with local enablement explicitly false is returning     *)
(* while nothing is active                                                 *)
C8_DisabledStartReturning ==
    \E t \in Callers :
        /\ ExplicitlyDisabled(t)
        /\ th[t].pc = "Start_return"
        /\ activeAppSec = Nil
        /\ nextInst = 1

(* The positions of a call inside setActiveAppSec *)
SetActivePcs ==
    {"setActiveAppSec_Lock", "setActiveAppSec_stopRC",
     "setActiveAppSec_assign", "setActiveAppSec_Unlock"}
        \cup {StopSteps[k] : k \in 1..Len(StopSteps)}

(* C9: a call of Start whose local enablement is explicitly true, on a     *)
(* healthy engine, and whose start() succeeded (which it does whenever the *)
(* engine load is not fatal and the initial swap succeeds) publishes its   *)
(* instance started, so that Enabled is true when Start returns, whether   *)
(* or not the remote-configuration client started.                         *)
C9_ExplicitlyEnabledIsEnabled ==
    /\ \A i \in Instances : \A in \in StartInputs :
          (Allocated(i) /\ ~apps[i].started /\ in.swapOk \in SwapOutcomes
             /\ ~LoadFatal(in.ok, in.err) /\ in.swapOk)
          => /\ ~start(W, i, in).err
             /\ start(W, i, in).w.apps[i].started
    /\ \A t \in Callers :
          (th[t].op = "Start" /\ th[t].set /\ th[t].pc \in SetActivePcs)
          => /\ th[t].enabled
             /\ apps[th[t].a].started
             /\ th[t].pc = "setActiveAppSec_Unlock"
                  => /\ activeAppSec = th[t].a
                     /\ EnabledValue

(* A call of Start with local enablement explicitly true is returning with *)
(* its instance published and started although its remote-configuration    *)
(* client failed to start                                                  *)
C9_EnabledWithoutRemoteConfig ==
    \E t \in Callers :
        /\ th[t].op = "Start"
        /\ th[t].set
        /\ th[t].pc = "setActiveAppSec_Unlock"
        /\ ~apps[th[t].a].rcRunning
        /\ EnabledValue

(* The instance record a is dormant: never started, no handle, no limiter *)
Dormant(a) ==
    /\ ~a.started
    /\ a.wafHandle = Nil
    /\ a.limiter = "nil"

(* C10: a call of Start with local enablement unset publishes a dormant    *)
(* instance, so Enabled is false; a remote enable that starts the active   *)
(* instance makes Enabled true; a later remote disable makes it false      *)
(* again, and after that disable no rate-limiter ticker of the instance is *)
(* still running.                                                          *)
C10_DormantThenRemotelyToggled ==
    [][/\ \A t \in Callers :
            (th[t].op = "Start" /\ ~th[t].set
               /\ th[t].pc = "setActiveAppSec_Unlock" /\ th'[t].pc = "idle")
            => /\ activeAppSec' = th[t].a
               /\ Dormant(apps'[th[t].a])
               /\ ~EnabledValue'
       /\ \A i \in Instances :
            (th' = th /\ activeAppSec = i)
            => /\ (~apps[i].started /\ apps'[i].started) => EnabledValue'
               /\ (apps[i].started /\ ~apps'[i].started)
                    => /\ ~EnabledValue'
                       /\ apps'[i].limiter # "running"
                       /\ ~apps'[i].leakedTicker
      ]_vars

(* Caller t is in a call of Start that got past the enablement checks      *)
(* (local enablement explicitly true, or unset) and to which waf.Health    *)
(* reported the engine unusable                                            *)
EngineUnusable(t) ==
    /\ th[t].op = "Start"
    /\ ~th[t].healthOk
    /\ th[t].outcome \notin {"enabled_error", "disabled"}

(* C11: a call of Start to which the health probe reports the engine       *)
(* unusable returns at once, whether local enablement is explicitly true   *)
(* or unset: it constructs no instance, starts no remote-configuration     *)
(* client, and changes neither the active reference nor any instance,      *)
(* handle or root, so no instance becomes started and Enabled is not made  *)
(* true.                                                                   *)
C11_UnusableEngineDoesNothing ==
    /\ [](/\ \A r \in IsEnabledResults : \A cfgErr \in BOOLEAN :
                (~r.err /\ (r.set => r.enabled))
                => StartOutcome(r.enabled, r.set, r.err, FALSE, cfgErr)
                     = "unhealthy"
          /\ \A t \in Callers :
                EngineUnusable(t) =>
                    /\ th[t].outcome = "unhealthy"
                    /\ th[t].pc = "Start_return"
                    /\ th[t].a = Nil)
    /\ [][\A t \in Callers :
            (EngineUnusable(t) \/ EngineUnusable(t)')
               => /\ UNCHANGED <<activeAppSec, mu, apps, root, closeCount,
                                 nextHandle, panicked, nextInst>>
                  /\ EnabledValue' = EnabledValue
       ]_vars

(* A call of Start with local enablement explicitly true is returning      *)
(* because the engine is unusable, and nothing was ever constructed        *)
C11_UnusableWithExplicitTrue ==
    \E t \in Callers :
        /\ EngineUnusable(t)
        /\ th[t].set /\ th[t].enabled
        /\ th[t].pc = "Start_return"
        /\ nextInst = 1
        /\ ~EnabledValue

(* C12: outside start() and stop(), the rate limiter of an instance is     *)
(* running exactly when the instance is started, and no ticker of the      *)
(* instance other than its current limiter is running.                     *)
C12_LimiterRunsIffStarted ==
    \A i \in Instances :
        ~InMethod(i) =>
            /\ (apps[i].limiter = "running") <=> apps[i].started
            /\ ~apps[i].leakedTicker

(* Request r is running the hook of handle h *)
RunsHook(r, h) == reqs[r].state = "running" /\ reqs[r].hook = h

(* C13: every control operation returns, however long the requests in      *)
(* flight go on: a call of Stop (or Start) in progress reaches its return  *)
(* although a request may run forever, and a stop() that reaches its end   *)
(* has detached the root and closed and released the handle, with every    *)
(* request left as it was.                                                 *)
C13_StopDoesNotWaitForRequests ==
    /\ InCall ~> ~InCall
    /\ [][\A t \in Callers :
            (th[t].pc = "stop_limiterStop" /\ th'[t].pc # th[t].pc)
               => /\ root' = Nil
                  /\ apps'[th[t].recv].wafHandle = Nil
                  /\ reqs' = reqs
       ]_vars

(* A call of Stop has finished its stop() while a request is still running *)
(* the hook of the handle that stop() closed                               *)
C13_StopDoneRequestRunning ==
    \E t \in Callers : \E r \in Requests : \E h \in Handles :
        /\ th[t].op = "Stop"
        /\ th[t].pc = "setActiveAppSec_assign"
        /\ RunsHook(r, h)
        /\ closeCount[h] = 1
        /\ root = Nil

(* C14: a request runs the hook it found at the root when it began until   *)
(* its own end: no step of the control plane, root swap and detach         *)
(* included, changes, ends or blocks a request in flight.  A request that  *)
(* begins finds the current root, hence no hook after a detach, and never  *)
(* the hook of a closed handle; a handle may be closed while a request     *)
(* that began earlier still runs its hook.                                 *)
C14_RequestsKeepTheirRoot ==
    /\ [](\A r \in Requests :
            reqs[r].state = "running" => ENABLED Request_End(r))
    /\ [][\A r \in Requests :
            /\ reqs[r].state = "running"
                 => \/ reqs'[r] = reqs[r]
                    \/ /\ reqs'[r] = IdleRequest
                       /\ UNCHANGED <<activeAppSec, mu, apps, root,
                                      closeCount, nextHandle, nextInst, th>>
            /\ (root' # root \/ closeCount' # closeCount) => reqs' = reqs
            /\ (reqs[r].state = "idle" /\ reqs'[r].state = "running")
                 => /\ reqs'[r].hook = root
                    /\ root = Nil => reqs'[r].hook = Nil
                    /\ reqs'[r].hook # Nil
                         => closeCount[reqs'[r].hook] = 0
       ]_vars

(* A request is running the hook of a handle that was closed and is no     *)
(* longer the root                                                         *)
C14_RequestOnClosedHandle ==
    \E r \in Requests : \E h \in Handles :
        /\ RunsHook(r, h)
        /\ closeCount[h] > 0
        /\ root # h

(* C15: start(), stop() and a ruleset swap never run concurrently on the   *)
(* same instance: no two callers are inside start() or stop() of one       *)
(* instance, and no remote-configuration callback acts on an instance      *)
(* while a caller is inside its start() or stop().                         *)
C15_TransitionsSerialized ==
    /\ [](\A i \in Instances :
            \A t, u \in Callers :
                (th[t].recv = i /\ th[u].recv = i) => t = u)
    /\ [][\A i \in Instances :
            (th' = th /\ apps'[i] # apps[i]) => ~InMethod(i)
       ]_vars

(* A caller is inside start() of an instance whose client runs and whose   *)
(* ruleset callbacks are registered, with one statement of start() left    *)
C15_CallbacksRegisteredInsideStart ==
    \E t \in Callers :
        /\ th[t].pc = "start_started"
        /\ apps[th[t].recv].rcRunning
        /\ apps[th[t].recv].rcBlocking

(* C16: the limiter is a token bucket whose capacity and refill both equal *)
(* the configured rate N.  Once an interval has elapsed, the tokens left   *)
(* and the decisions "available" since then add up to N: a decision is     *)
(* "available" while fewer than N were, and "unavailable" after exactly N. *)
(* A decision is always possible: it never waits.                          *)
C16_TokenBucketOfRateN ==
    /\ [](bucket.made =>
            /\ bucket.capacity \in Rates
            /\ bucket.refill = bucket.capacity
            /\ bucket.ticked =>
                 /\ bucket.tokens + bucket.granted = bucket.capacity
                 /\ bucket.last = "unavailable"
                      => bucket.granted = bucket.capacity
                 /\ bucket.last = "none" => bucket.granted = 0
            /\ bucket.last = "unavailable" => bucket.tokens = 0
            /\ ENABLED Limiter_Allow)
    /\ [][/\ (bucket'.last = "available" /\ bucket' # bucket)
               => /\ bucket.tokens > 0
                  /\ bucket'.granted = bucket.granted + 1
                  /\ bucket.ticked => bucket.granted < bucket.capacity
          /\ (bucket'.last = "unavailable" /\ bucket' # bucket)
               => /\ bucket.tokens = 0
                  /\ bucket.ticked => bucket.granted = bucket.capacity
       ]_vars

(* After an interval, a limiter of the largest rate has answered           *)
(* "available" as many times as its rate and then "unavailable"            *)
C16_ExhaustedAfterNDecisions ==
    /\ bucket.made
    /\ bucket.ticked
    /\ bucket.capacity = MaxRate
    /\ bucket.granted = MaxRate
    /\ bucket.last = "unavailable"

(* Caller t is inside setActiveAppSec, past mu.Lock() *)
InReplacement(t) == th[t].pc \in SetActivePcs \ {"setActiveAppSec_Lock"}

(* C17: a caller inside setActiveAppSec, from its mu.Lock() on, through    *)
(* stopRC(), stop() and the assignment, holds mu exclusively: no reader    *)
(* holds it, no call of Enabled can read, and none of its steps before the *)
(* unlock changes mu.  So a call of Enabled reads when no replacement is   *)
(* under way, from an active instance that is in no method and that is     *)
(* started exactly when it holds an engine handle.                         *)
C17_ReplacementAtomicForEnabled ==
    /\ [](\A t \in Callers :
            /\ InReplacement(t)
                 => /\ mu.writer = t
                    /\ mu.readers = {}
                    /\ \A u \in Callers : ~ENABLED Enabled_RLock(u)
            /\ th[t].pc = "Enabled_RUnlock"
                 => \A u \in Callers : ~InReplacement(u))
    /\ [][\A t \in Callers :
            /\ (InReplacement(t) /\ th[t].pc # "setActiveAppSec_Unlock")
                 => mu' = mu
            /\ (th[t].pc = "idle" /\ th'[t].pc = "Enabled_RUnlock")
                 => /\ \A u \in Callers : ~InReplacement(u)
                    /\ activeAppSec # Nil
                         => /\ ~InMethod(activeAppSec)
                            /\ apps[activeAppSec].started
                                 <=> apps[activeAppSec].wafHandle # Nil
                            /\ th'[t].result = apps[activeAppSec].started
         ]_vars

(* A call of Start is replacing a started instance and has torn half of it *)
(* down: its flag is cleared, its handle not yet closed; the other caller  *)
(* is idle                                                                 *)
C17_HalfTornDownUnderLock ==
    \E t \in Callers : \E u \in Callers \ {t} :
        /\ th[t].op = "Start"
        /\ th[t].pc = "stop_Close"
        /\ th[t].recv = activeAppSec
        /\ th[t].a # activeAppSec
        /\ ~apps[activeAppSec].started
        /\ apps[activeAppSec].wafHandle # Nil
        /\ closeCount[apps[activeAppSec].wafHandle] = 0
        /\ th[u].pc = "idle"

(* Caller t runs a statement of the method it is in on instance i *)
StepsIn(t, i) == th[t].recv = i /\ th'[t] # th[t]

(* C18: stop() of a started instance clears started, then disables the     *)
(* blocking updates of remote configuration, then detaches the registry    *)
(* root, then closes the handle and clears the reference, then stops the   *)
(* limiter.  Each statement does its own effect and nothing else, and at   *)
(* each statement the earlier effects are there and the later ones are not.*)
C18_StopStatementsInOrder ==
    /\ [](\A t \in Callers : \A i \in Instances :
            (th[t].recv = i /\ InSeq(StopSteps, th[t].pc)
                            /\ th[t].pc # "stop_started" /\ ~panicked)
              => LET s == th[t].pc
                     a == apps[i]
                 IN /\ ~a.started
                    /\ a.rcBlocking => s = "stop_disableRCBlocking"
                    /\ (a.wafHandle # Nil) <=> s # "stop_limiterStop"
                    /\ a.wafHandle # Nil => closeCount[a.wafHandle] = 0
                    /\ a.limiter = "running")
    /\ [][\A t \in Callers : \A i \in Instances :
            (StepsIn(t, i) /\ InSeq(StopSteps, th[t].pc)
                           /\ apps[i].started \in {th[t].pc = "stop_started"})
              => LET s == th[t].pc
                     a == apps[i]
                 IN /\ s = "stop_started"
                         => /\ th'[t].pc = "stop_disableRCBlocking"
                            /\ apps' = [apps EXCEPT ![i].started = FALSE]
                            /\ UNCHANGED <<root, closeCount>>
                    /\ s = "stop_disableRCBlocking"
                         => /\ th'[t].pc = "stop_SwapRootOperation"
                            /\ apps' = [apps EXCEPT ![i].rcBlocking = FALSE]
                            /\ UNCHANGED <<root, closeCount>>
                    /\ s = "stop_SwapRootOperation"
                         => /\ th'[t].pc = "stop_Close"
                            /\ root' = Nil
                            /\ UNCHANGED <<apps, closeCount>>
                    /\ s = "stop_Close"
                         => /\ th'[t].pc = "stop_limiterStop"
                            /\ apps' = [apps EXCEPT ![i].wafHandle = Nil]
                            /\ closeCount'
                                 = [closeCount EXCEPT ![a.wafHandle] = 1]
                            /\ root' = root
                    /\ s = "stop_limiterStop"
                         => /\ th'[t].pc = "setActiveAppSec_assign"
                            /\ apps' = [apps EXCEPT ![i].limiter = "stopped"]
                            /\ UNCHANGED <<root, closeCount>>
         ]_vars

(* A stop() has closed the handle of its instance and is about to stop its *)
(* limiter, which still runs                                               *)
C18_LimiterStoppedLast ==
    \E t \in Callers : \E i \in Instances :
        /\ th[t].recv = i
        /\ th[t].pc = "stop_limiterStop"
        /\ ~apps[i].started
        /\ ~apps[i].rcBlocking
        /\ apps[i].wafHandle = Nil
        /\ root = Nil
        /\ apps[i].limiter = "running"
        /\ \E h \in Handles : closeCount[h] = 1

(* C19: stop() on an instance whose started flag is false returns at once  *)
(* and changes nothing: the registry root, the instance's handle, limiter  *)
(* and blocking subscription, and every other instance, are as they were.  *)
(* So stop() after stop() leaves what one stop() leaves.                   *)
C19_StopOfNotStartedIsNoOp ==
    /\ [](\A i \in Instances :
            Allocated(i)
              => /\ ~apps[i].started => stop(W, i) = W
                 /\ stop(stop(W, i), i) = stop(W, i))
    /\ [][\A t \in Callers : \A i \in Instances :
            (StepsIn(t, i) /\ th[t].pc = "stop_started" /\ ~apps[i].started)
              => /\ th'[t].pc = "setActiveAppSec_assign"
                 /\ UNCHANGED <<apps, root, closeCount, nextHandle, panicked,
                                activeAppSec, mu>>
         ]_vars

(* A call of Stop has been through stop() on an active instance that was   *)
(* never started: it has no limiter, and nothing failed                    *)
C19_StoppedWhileNeverStarted ==
    \E t \in Callers :
        /\ th[t].op = "Stop"
        /\ th[t].pc = "setActiveAppSec_assign"
        /\ activeAppSec # Nil
        /\ ~apps[activeAppSec].started
        /\ apps[activeAppSec].limiter = "nil"
        /\ apps[activeAppSec].remoteActivation
        /\ ~panicked

(* C20: when the engine load answers an error and not-ok, start() returns  *)
(* an error and the state is as it was: no limiter is created or started,  *)
(* the registry root and the handle are untouched, the blocking updates    *)
(* are not subscribed to and started stays false.                          *)
C20_FatalLoadChangesNothing ==
    /\ [](\A i \in Instances : \A in \in StartInputs :
            (Allocated(i) /\ in.err /\ ~in.ok)
              => /\ start(W, i, in).err
                 /\ start(W, i, in).w = W)
    /\ [](\A t \in Callers :
            th[t].pc = "start_Load"
              => LET a == apps[th[t].recv]
                 IN /\ th[t].recv # Nil
                    /\ a.limiter = "nil"
                    /\ a.wafHandle = Nil
                    /\ ~a.rcBlocking
                    /\ ~a.started)
    /\ [][\A t \in Callers : \A i \in Instances :
            (StepsIn(t, i) /\ th[t].pc = "start_Load")
              => /\ UNCHANGED <<apps, root, closeCount, nextHandle, panicked>>
                 /\ th'[t].pc \in {"Start_abort", "start_NewTokenTicker"}
         ]_vars

(* A start() called from Start has returned the error of the engine load:  *)
(* its instance has no limiter, no handle and is not started               *)
C20_StartFailedAtLoad ==
    \E t \in Callers :
        /\ th[t].pc = "Start_abort"
        /\ th[t].a # Nil
        /\ apps[th[t].a].limiter = "nil"
        /\ apps[th[t].a].wafHandle = Nil
        /\ ~apps[th[t].a].rcBlocking
        /\ ~apps[th[t].a].started

(* The engine load answers an error together with ok: degraded but usable *)
DegradedLoads == {in \in StartInputs : in.err /\ in.ok}

(* Instance i can be handed to start(): it exists, is not started, holds   *)
(* no handle and no call is inside it                                      *)
Startable(i) ==
    /\ Allocated(i)
    /\ ~apps[i].started
    /\ apps[i].wafHandle = Nil
    /\ ~InMethod(i)

(* C21: an error of the engine load that comes with ok is not fatal:       *)
(* start() goes on to create and start the limiter and to the initial      *)
(* swap; when the swap succeeds it subscribes to the blocking updates and  *)
(* returns no error with started true, the handle installed and rooted;    *)
(* when the swap fails it returns the error with the limiter started.      *)
C21_DegradedLoadContinues ==
    \A i \in Instances : \A in \in DegradedLoads :
        Startable(i)
          => LET r == start(W, i, in)
                 a == r.w.apps[i]
             IN /\ ~startFails("start_Load", in)
                /\ a.limiter = "running"
                /\ r.err = ~in.swapOk
                /\ in.swapOk
                     => /\ a.started
                        /\ a.rcBlocking
                        /\ a.wafHandle = nextHandle
                        /\ r.w.root = a.wafHandle
                /\ ~in.swapOk
                     => /\ ~a.started
                        /\ ~a.rcBlocking
                        /\ a.wafHandle = Nil
                        /\ r.w.root = root

(* A call of Start is about to load the engine for a fresh instance, a     *)
(* handle can still be made, and start() on a degraded load would leave    *)
(* the instance started                                                    *)
C21_DegradedStartSucceeds ==
    \E t \in Callers :
        /\ th[t].pc = "start_Load"
        /\ th[t].recv # Nil
        /\ apps[th[t].recv].limiter = "nil"
        /\ TRUE \in SwapOutcomes
        /\ LET r == start(W, th[t].recv,
                          [ok |-> TRUE, err |-> TRUE, swapOk |-> TRUE])
           IN ~r.err /\ r.w.apps[th[t].recv].started

(* C22: a start() that succeeds loads the engine, then creates and starts  *)
(* the limiter, then makes the initial swap, which installs the handle and *)
(* attaches its hook as the registry root, then subscribes to the blocking *)
(* updates, and only then sets started.  Each statement does its own       *)
(* effect and nothing else; at each statement the earlier effects are      *)
(* there and the later ones are not, and started is set on an instance     *)
(* whose hook is the root.                                                 *)
C22_StartStatementsInOrder ==
    /\ [](\A t \in Callers : \A i \in Instances :
            (th[t].recv = i /\ InSeq(StartSteps, th[t].pc))
              => LET s == th[t].pc
                     a == apps[i]
                 IN /\ ~a.started
                    /\ (a.limiter = "nil")
                         <=> s \in {"start_Load", "start_NewTokenTicker"}
                    /\ a.limiter \in {"nil", "running"}
                    /\ (a.wafHandle # Nil)
                         <=> s \in {"start_enableRCBlocking", "start_started"}
                    /\ a.wafHandle # Nil
                         => root = a.wafHandle /\ closeCount[root] = 0
                    /\ a.rcBlocking <=> s = "start_started")
    /\ [](\A i \in Instances : \A in \in StartInputs :
            (Startable(i) /\ ~in.err /\ in.swapOk)
              => start(W, i, in)
                   = [w |-> setStarted(
                              enableRCBlocking(
                                swapWAF(newLimiter(W, i), i, TRUE), i),
                              i, TRUE),
                      err |-> FALSE])
    /\ [][\A t \in Callers : \A i \in Instances :
            (StepsIn(t, i) /\ InSeq(StartSteps, th[t].pc)
                           /\ th'[t].pc # "Start_abort")
              => LET s == th[t].pc
                 IN /\ s = "start_Load"
                         => /\ th'[t].pc = "start_NewTokenTicker"
                            /\ UNCHANGED <<apps, root, nextHandle, closeCount>>
                    /\ s = "start_NewTokenTicker"
                         => /\ th'[t].pc = "start_swapWAF"
                            /\ apps' = [apps EXCEPT ![i].limiter = "running"]
                            /\ UNCHANGED <<root, nextHandle, closeCount>>
                    /\ s = "start_swapWAF"
                         => /\ th'[t].pc = "start_enableRCBlocking"
                            /\ apps' = [apps EXCEPT ![i].wafHandle = nextHandle]
                            /\ root' = nextHandle
                            /\ nextHandle' = nextHandle + 1
                            /\ closeCount' = closeCount
                    /\ s = "start_enableRCBlocking"
                         => /\ th'[t].pc = "start_started"
                            /\ apps' = [apps EXCEPT ![i].rcBlocking = TRUE]
                            /\ UNCHANGED <<root, nextHandle, closeCount>>
                    /\ s = "start_started"
                         => /\ th'[t].pc = "setActiveAppSec_Lock"
                            /\ apps' = [apps EXCEPT ![i].started = TRUE]
                            /\ root = apps[i].wafHandle
                            /\ UNCHANGED <<root, nextHandle, closeCount>>
         ]_vars

(* A start() called from Start has returned no error: its instance is      *)
(* started, its limiter runs, its hook is the root, it is subscribed to    *)
(* the blocking updates and it is not published yet                        *)
C22_StartSucceeded ==
    \E t \in Callers :
        /\ th[t].op = "Start"
        /\ th[t].pc = "setActiveAppSec_Lock"
        /\ th[t].a # Nil
        /\ th[t].a # activeAppSec
        /\ apps[th[t].a].started
        /\ apps[th[t].a].limiter = "running"
        /\ apps[th[t].a].rcBlocking
        /\ apps[th[t].a].wafHandle # Nil
        /\ root = apps[th[t].a].wafHandle

(* C23: once start() has returned an error to Start, the limiter that this *)
(* call created and started no longer runs, and the instance, which is     *)
(* not started and will never be published, has no ticker left behind.     *)
C23_FailedStartLeavesNoLimiter ==
    \A t \in Callers :
        (th[t].op = "Start" /\ th[t].pc = "Start_abort" /\ th[t].set)
          => /\ apps[th[t].a].limiter # "running"
             /\ ~apps[th[t].a].leakedTicker

(* C24: the handle whose hook is the registry root has not been closed,    *)
(* in every state that concurrent calls of Start and Stop and the remote   *)
(* updates can reach.                                                      *)
C24_RootHandleIsOpen ==
    root # Nil => closeCount[root] = 0

(* Every call has returned, a handle was closed on the way, and the root   *)
(* is the hook of another handle, which is open                            *)
C24_RootOpenAfterAClose ==
    /\ \A t \in Callers : th[t].pc = "idle"
    /\ root # Nil
    /\ closeCount[root] = 0
    /\ \E h \in Handles : closeCount[h] = 1

(* The handles made so far *)
Created == {h \in Handles : h < nextHandle}

(* Every call has returned and no instance is active, as after a last Stop *)
StoppedAndQuiet ==
    /\ \A t \in Callers : th[t].pc = "idle"
    /\ activeAppSec = Nil

(* C25: no handle is closed twice, a handle not made yet is not closed,    *)
(* and when every call has returned and the last one was Stop, every       *)
(* handle that was made is closed and no instance refers to one.           *)
C25_HandlesClosedExactlyOnce ==
    /\ \A h \in Handles : closeCount[h] <= 1
    /\ \A h \in Handles \ Created : closeCount[h] = 0
    /\ StoppedAndQuiet
         => /\ \A h \in Created : closeCount[h] = 1
            /\ \A i \in Instances : apps[i].wafHandle = Nil

(* Every call has returned, the last one was Stop, and handles were made:  *)
(* each was closed once and the root is detached                           *)
C25_AllClosedAfterStop ==
    /\ StoppedAndQuiet
    /\ Created # {}
    /\ \A h \in Created : closeCount[h] = 1
    /\ root = Nil

(* No call of Start, Stop or Enabled is in progress *)
Quiescent == \A t \in Callers : th[t].pc = "idle"

(* C26: when no call is in progress, an instance whose started flag is set *)
(* is the active instance: an instance that was replaced, or that a failed *)
(* Start dropped, is not started.                                          *)
C26_StartedOnlyIfActive ==
    Quiescent => \A i \in Instances : apps[i].started => i = activeAppSec

(* No call is in progress; the active instance is started and it replaced  *)
(* an instance that had been started and is stopped now                    *)
C26_ReplacedInstanceStopped ==
    /\ Quiescent
    /\ activeAppSec # Nil
    /\ apps[activeAppSec].started
    /\ \E i \in Instances \ {activeAppSec} :
          /\ Allocated(i)
          /\ ~apps[i].started
          /\ apps[i].limiter = "stopped"

(* Why a call of Start returns before it constructs an instance *)
EarlyOutcomes == {"enabled_error", "disabled", "unhealthy", "config_error"}

(* Caller t is in a call of Start that returns early *)
ReturnsEarly(t) == th[t].op = "Start" /\ th[t].outcome \in EarlyOutcomes

(* C27: a call of Start that returns early, on an error of the enablement  *)
(* lookup, on local enablement explicitly false, on an unusable engine or  *)
(* on a configuration error, constructs nothing and leaves the active      *)
(* reference, the active instance (its started flag, handle, limiter and   *)
(* remote-configuration wiring) and the registry root as they were, from   *)
(* its first step to its return.                                           *)
C27_EarlyReturnKeepsActive ==
    /\ [](/\ {c.outcome : c \in StartCalls} = EarlyOutcomes \cup {"construct"}
          /\ \A t \in Callers :
                ReturnsEarly(t)
                  => /\ th[t].pc = "Start_return"
                     /\ th[t].a = Nil
                     /\ th[t].recv = Nil)
    /\ [][\A t \in Callers :
            (ReturnsEarly(t) \/ ReturnsEarly(t)')
              => /\ activeAppSec' = activeAppSec
                 /\ root' = root
                 /\ apps' = apps
                 /\ closeCount' = closeCount
                 /\ nextInst' = nextInst
                 /\ mu' = mu
                 /\ EnabledValue' = EnabledValue
       ]_vars

(* A call of Start is returning on a configuration error while an instance *)
(* is active, started, with its hook as the root and its limiter running   *)
C27_EarlyReturnOverActive ==
    \E t \in Callers :
        /\ ReturnsEarly(t)
        /\ th[t].outcome = "config_error"
        /\ th[t].pc = "Start_return"
        /\ activeAppSec # Nil
        /\ apps[activeAppSec].started
        /\ apps[activeAppSec].limiter = "running"
        /\ root = apps[activeAppSec].wafHandle
        /\ root # Nil

(* C28: under concurrent calls of Start, Stop and Enabled, every call that *)
(* began returns.  The exclusive lock is held only by a caller inside      *)
(* setActiveAppSec and the shared lock only by callers inside Enabled; the *)
(* step that returns from each releases its lock, so that the lock is free *)
(* when every call has returned.                                           *)
C28_CallsReturnAndUnlock ==
    /\ \A t \in Callers : (th[t].pc # "idle") ~> (th[t].pc = "idle")
    /\ [](/\ \A t \in Callers :
                /\ mu.writer = t <=> InReplacement(t)
                /\ t \in mu.readers <=> th[t].pc = "Enabled_RUnlock"
          /\ mu.writer \in Callers \cup {NoThread}
          /\ mu.readers \subseteq Callers
          /\ Quiescent => mu = [writer |-> NoThread, readers |-> {}]
          /\ ~panicked)
    /\ [][\A t \in Callers :
            (th[t].pc # "idle" /\ th'[t].pc = "idle")
              => /\ mu'.writer # t
                 /\ t \notin mu'.readers
       ]_vars

(* A call of Start or Stop waits in mu.Lock() while a call of Enabled      *)
(* holds the lock shared                                                   *)
C28_WriterWaitsForReader ==
    \E t \in Callers : \E u \in Callers \ {t} :
        /\ th[t].pc = "setActiveAppSec_Lock"
        /\ th[u].pc = "Enabled_RUnlock"
        /\ u \in mu.readers
        /\ mu.writer = NoThread
        /\ ~ENABLED setActiveAppSec_Lock(t)

(* C29: an instance whose started flag is set has a limiter, which runs;   *)
(* so the a.limiter.Stop() of stop() is never a call on a nil limiter and  *)
(* nothing panics.  The stop() of a published instance that was never      *)
(* started returns before it reaches the limiter and leaves the instance   *)
(* as it was.                                                              *)
C29_StartedHasLimiter ==
    /\ [](/\ ~panicked
          /\ \A i \in Instances :
                /\ apps[i].started => apps[i].limiter = "running"
                /\ ~Allocated(i) => apps[i] = newAppSec
                /\ ~stop(W, i).panicked
          /\ newAppSec.limiter = "nil" /\ ~newAppSec.started)
    /\ [][\A t \in Callers : \A i \in Instances :
            /\ (StepsIn(t, i) /\ th[t].pc = "stop_limiterStop")
                 => /\ apps[i].limiter = "running"
                    /\ apps'[i].limiter = "stopped"
            /\ (StepsIn(t, i) /\ th[t].pc = "stop_started"
                              /\ apps[i].limiter = "nil")
                 => /\ apps' = apps
                    /\ th'[t].pc = "setActiveAppSec_assign"
         ]_vars

(* A call of Stop has stopped a published instance that was never started  *)
(* and is about to return: the instance still has no limiter               *)
C29_DormantStoppedWithoutLimiter ==
    \E t \in Callers : \E i \in Instances :
        /\ th[t].op = "Stop"
        /\ th[t].pc = "setActiveAppSec_Unlock"
        /\ activeAppSec = Nil
        /\ Allocated(i)
        /\ apps[i].remoteActivation
        /\ ~apps[i].rcRunning
        /\ apps[i].limiter = "nil"
        /\ ~apps[i].started
        /\ \A j \in Instances \ {i} : ~Allocated(j)

=============================================================================
